---- MODULE Spec2Model ----
(***************************************************************************)
(* Model of extensions/raycast-ocr/src/utils/clipboard.ts.                 *)
(*                                                                         *)
(* The file holds two versions of the same three exported functions        *)
(* (lines 1-103 and lines 105-219).  The variable `variant` says which     *)
(* version is running.  Paths, script output and the clipboard's file      *)
(* field are strings, and the JavaScript string and path functions the     *)
(* code calls are operators over their characters.  The filesystem is the  *)
(* set of the entries that exist; the processes the code launches          *)
(* (osascript, screencapture) and the host calls (Clipboard.read,          *)
(* writeFile, unlink) are nondeterministic choices over their outcomes.    *)
(***************************************************************************)
EXTENDS Integers, Sequences, FiniteSets, TLC

VARIABLES variant, fs, uuids, images, originals, last

vars == <<variant, fs, uuids, images, originals, last>>

(***************************************************************************)
(* Bounds of the model.                                                    *)
(***************************************************************************)
\* Number of randomUUID() calls a behaviour may make.
MaxUuids == 2

(***************************************************************************)
(* JavaScript String methods.                                              *)
(***************************************************************************)
\* s[i], 1-based, as a one-character string.
CharAt(s, i) == SubSeq(s, i, i)

\* String.prototype.startsWith
StartsWith(s, p) == Len(p) <= Len(s) /\ SubSeq(s, 1, Len(p)) = p

\* String.prototype.endsWith
EndsWith(s, p) ==
    Len(p) <= Len(s) /\ SubSeq(s, Len(s) - Len(p) + 1, Len(s)) = p

\* String.prototype.includes
Includes(s, p) ==
    \E i \in 1..(Len(s) - Len(p) + 1) : SubSeq(s, i, i + Len(p) - 1) = p

\* The lower-case form of each upper-case ASCII letter.
Lowered ==
    [A |-> "a", B |-> "b", C |-> "c", D |-> "d", E |-> "e", F |-> "f", G |-> "g",
     H |-> "h", I |-> "i", J |-> "j", K |-> "k", L |-> "l", M |-> "m", N |-> "n",
     O |-> "o", P |-> "p", Q |-> "q", R |-> "r", S |-> "s", T |-> "t", U |-> "u",
     V |-> "v", W |-> "w", X |-> "x", Y |-> "y", Z |-> "z"]

LowerChar(c) == IF c \in DOMAIN Lowered THEN Lowered[c] ELSE c

RECURSIVE LowerFrom(_, _)
LowerFrom(s, i) ==
    IF i > Len(s) THEN "" ELSE LowerChar(CharAt(s, i)) \o LowerFrom(s, i + 1)

\* String.prototype.toLowerCase
ToLowerCase(s) == LowerFrom(s, 1)

IsSpace(c) == c \in {" ", "\n", "\t", "\r"}

RECURSIVE TrimStart(_)
TrimStart(s) ==
    IF Len(s) > 0 /\ IsSpace(CharAt(s, 1))
    THEN TrimStart(SubSeq(s, 2, Len(s)))
    ELSE s

RECURSIVE TrimEnd(_)
TrimEnd(s) ==
    IF Len(s) > 0 /\ IsSpace(CharAt(s, Len(s)))
    THEN TrimEnd(SubSeq(s, 1, Len(s) - 1))
    ELSE s

\* String.prototype.trim
Trim(s) == TrimEnd(TrimStart(s))

(***************************************************************************)
(* Node's path module, POSIX flavour.                                      *)
(***************************************************************************)
\* The segments of s between "/" characters, empty ones included.
RECURSIVE SplitFrom(_, _, _)
SplitFrom(s, i, cur) ==
    IF i > Len(s) THEN <<cur>>
    ELSE IF CharAt(s, i) = "/" THEN <<cur>> \o SplitFrom(s, i + 1, "")
    ELSE SplitFrom(s, i + 1, cur \o CharAt(s, i))

Segments(s) == SplitFrom(s, 1, "")

\* normalizeString of an absolute path: "" and "." segments dropped, ".."
\* pops one segment and stays at the root.
RECURSIVE NormSegs(_, _)
NormSegs(segs, acc) ==
    IF segs = <<>> THEN acc
    ELSE LET h == Head(segs)
             t == Tail(segs)
         IN IF h = "" \/ h = "." THEN NormSegs(t, acc)
            ELSE IF h = ".."
                 THEN NormSegs(t, IF acc = <<>> THEN acc
                                  ELSE SubSeq(acc, 1, Len(acc) - 1))
                 ELSE NormSegs(t, Append(acc, h))

RECURSIVE JoinSegs(_)
JoinSegs(segs) ==
    IF segs = <<>> THEN "" ELSE "/" \o Head(segs) \o JoinSegs(Tail(segs))

AbsoluteOf(segs) == IF segs = <<>> THEN "/" ELSE JoinSegs(segs)

\* The working directory of the extension process.
Cwd == "/"

\* path.resolve(p): the absolute, normalised form, computed on the text alone
\* (no filesystem access, symbolic links are not followed).
PathResolve(p) ==
    IF StartsWith(p, "/")
    THEN AbsoluteOf(NormSegs(Segments(p), <<>>))
    ELSE AbsoluteOf(NormSegs(Segments(Cwd \o "/" \o p), <<>>))

\* path.join(dir, name) for an absolute dir.
PathJoin(dir, name) == AbsoluteOf(NormSegs(Segments(dir \o "/" \o name), <<>>))

(***************************************************************************)
(* The paths the functions generate and the paths they are given.          *)
(***************************************************************************)
HexDigits == "0123456789abcdef"

\* The n-th value randomUUID() hands out; successive values are distinct.
UuidOf(n) == "6f1c9e2" \o CharAt(HexDigits, n) \o "-4b7d"

UuidRange == 1..Len(HexDigits)

\* path.join("/tmp", `raycast-ocr-${randomUUID()}.png`), by uuid number.
TempPaths ==
    [n \in UuidRange |-> PathJoin("/tmp", "raycast-ocr-" \o UuidOf(n) \o ".png")]

\* path.join("/tmp", `ocr-script-${randomUUID()}.applescript`), by uuid number.
ScriptPaths ==
    [n \in UuidRange |->
        PathJoin("/tmp", "ocr-script-" \o UuidOf(n) \o ".applescript")]

\* path.join("/tmp", `raycast-ocr-screenshot-${randomUUID()}.png`), by uuid number.
ScreenshotPaths ==
    [n \in UuidRange |->
        PathJoin("/tmp", "raycast-ocr-screenshot-" \o UuidOf(n) \o ".png")]

\* The file field of the clipboard descriptors the host may report.
ClipboardFiles == {"/Users/me/shot.PNG", "/Users/me/notes.txt", "/tmp/photo.png"}

\* Paths a caller may hand to cleanupTempFile besides the ones it was given.
ProbePaths ==
    {"/tmp/other.txt", "/etc/passwd", "/tmp/raycast-ocr-x/../../etc/passwd",
     "/tmp/raycast-ocr-link", "/tmp/raycast-ocr-d/passwd"}

\* Every path a call of the model can be about.
KnownPaths ==
    ClipboardFiles \cup ProbePaths
        \cup {TempPaths[n] : n \in UuidRange}
        \cup {ScriptPaths[n] : n \in UuidRange}
        \cup {ScreenshotPaths[n] : n \in UuidRange}

(***************************************************************************)
(* The filesystem.  `fs` is the set of the files and symbolic links that   *)
(* exist, each named by its canonical path; the directories are fixed.     *)
(***************************************************************************)
Dirs == {"/", "/tmp", "/etc", "/Users", "/Users/me", "/tmp/raycast-ocr-x"}

\* Files of the user and of other programs that exist when the extension starts.
EnvFiles == {"/Users/me/shot.PNG", "/Users/me/notes.txt", "/tmp/photo.png",
             "/tmp/other.txt", "/etc/passwd"}

\* Symbolic links that exist when the extension starts: one to a file and one
\* to a directory, both placed under the temp prefix and pointing out of /tmp.
Links == {"/tmp/raycast-ocr-link", "/tmp/raycast-ocr-d"}

SymlinkTarget(p) == IF p = "/tmp/raycast-ocr-link" THEN "/etc/passwd" ELSE "/etc"

NoEntry == "<ENOENT>"

ParentDir(d) ==
    LET segs == NormSegs(Segments(d), <<>>)
    IN IF segs = <<>> THEN "/" ELSE AbsoluteOf(SubSeq(segs, 1, Len(segs) - 1))

ChildOf(d, name) == IF d = "/" THEN "/" \o name ELSE d \o "/" \o name

RECURSIVE NonEmpty(_)
NonEmpty(segs) ==
    IF segs = <<>> THEN <<>>
    ELSE IF Head(segs) = "" \/ Head(segs) = "." THEN NonEmpty(Tail(segs))
    ELSE <<Head(segs)>> \o NonEmpty(Tail(segs))

\* The kernel's path walk for unlink(2): every component but the last is
\* looked up and followed when it is a symbolic link; the last one is not.
RECURSIVE Walk(_, _, _)
Walk(files, segs, dir) ==
    IF segs = <<>> THEN dir
    ELSE LET h == Head(segs)
             t == Tail(segs)
         IN IF h = ".." THEN Walk(files, t, ParentDir(dir))
            ELSE LET child == ChildOf(dir, h)
                 IN IF t = <<>> THEN child
                    ELSE IF child \in Dirs THEN Walk(files, t, child)
                    ELSE IF child \in files /\ child \in Links
                              /\ SymlinkTarget(child) \in Dirs
                         THEN Walk(files, t, SymlinkTarget(child))
                    ELSE NoEntry

\* The walk depends on the filesystem through the links that exist only, so
\* it is tabulated once per set of links and path (@@ makes TLC build the
\* table once instead of walking again at every lookup).
Entries ==
    [ls \in SUBSET Links, p \in KnownPaths |->
        Walk(ls, NonEmpty(Segments(IF StartsWith(p, "/") THEN p ELSE Cwd \o "/" \o p)),
             "/")] @@ << >>

KernelEntry(files, p) == Entries[files \cap Links, p]

\* realpath of an entry: a final symbolic link is followed as well.
Followed(files, e) == IF e \in files /\ e \in Links THEN SymlinkTarget(e) ELSE e

RealPath(files, p) == Followed(files, KernelEntry(files, p))

\* unlink(2) on the entry the walk found: removes it (a symbolic link itself,
\* never its target) or fails: ENOENT when there is no such entry, EPERM on a
\* directory, EACCES when the process may not remove it (permitted = FALSE).
UnlinkEntry(files, e, permitted) ==
    IF e \in files /\ permitted
    THEN [threw |-> FALSE, fs |-> files \ {e}]
    ELSE [threw |-> TRUE, fs |-> files]

\* fs/promises unlink(p)
Unlink(files, p, permitted) == UnlinkEntry(files, KernelEntry(files, p), permitted)

(***************************************************************************)
(* cleanupTempFile, both versions.                                         *)
(***************************************************************************)
TempPrefix == "/tmp/raycast-ocr"

\* Lines 93-95: the only gate of the first version.
CleanupChecksV1(filePath) == StartsWith(filePath, TempPrefix)

\* Line 202: the textual gates of the second version.
InTmpWithoutDotDot(filePath, tmpDir) ==
    ~(~StartsWith(filePath, tmpDir) \/ Includes(filePath, ".."))

\* Lines 207-211: the resolved path against the resolved directory.
ResolvesInto(resolvedPath, resolvedTmpDir) ==
    ~(~StartsWith(resolvedPath, resolvedTmpDir))

\* The second version with includes(".") written for includes(".."): every path
\* with an extension is turned away.
CleanupChecksV2SingleDot(filePath) ==
    /\ ~(~StartsWith(filePath, "/tmp/") \/ Includes(filePath, "."))
    /\ ResolvesInto(PathResolve(filePath), PathResolve("/tmp/"))

\* Lines 201-211: the gates of the second version.
CleanupChecksV2(filePath) ==
    /\ InTmpWithoutDotDot(filePath, "/tmp/")
    /\ ResolvesInto(PathResolve(filePath), PathResolve("/tmp/"))

\* The gates of each version, tabulated over the paths of the model.
CleanupGates ==
    [v \in {1, 2}, p \in KnownPaths |->
        IF v = 1 THEN CleanupChecksV1(p) ELSE CleanupChecksV2(p)] @@ << >>

CleanupChecks(v, filePath) == CleanupGates[v, filePath]

\* try { await unlink(filePath) } catch (error) { console.error(...) }:
\* whatever unlink did, the function returns normally.
CatchAndLog(u) ==
    [threw |-> FALSE, fs |-> u.fs, attempted |-> TRUE, failed |-> u.threw]

\* The whole function: the gates, then unlink inside try/catch.
CleanupTempFile(v, files, filePath, permitted) ==
    IF ~CleanupChecks(v, filePath)
    THEN [threw |-> FALSE, fs |-> files, attempted |-> FALSE, failed |-> FALSE]
    ELSE CatchAndLog(Unlink(files, filePath, permitted))

(***************************************************************************)
(* getClipboardImagePath, both versions.                                   *)
(***************************************************************************)
\* The value of a call that returned null, and of one that returned nothing
\* because it threw.
Null == "<null>"

ImageExtensions == {".png", ".jpg", ".jpeg", ".gif", ".bmp", ".tiff", ".heic"}

\* imageExtensions.some((ext) => filePath.toLowerCase().endsWith(ext))
EndsWithImageExtension(lower) == \E ext \in ImageExtensions : EndsWith(lower, ext)

ImageFiles == {f \in ClipboardFiles : EndsWithImageExtension(ToLowerCase(f))}

IsImage(filePath) == filePath \in ImageFiles

\* What Clipboard.read() can do: reject, or resolve with a descriptor whose
\* file field is absent ("") or names a file.
ClipboardReads ==
    {[ok |-> FALSE, file |-> ""]}
        \cup {[ok |-> TRUE, file |-> f] : f \in {""} \cup ClipboardFiles}

\* What writeFile(scriptPath, script) can do: write the file, reject before
\* creating it, or reject after creating it (the disk fills up).
WriteOutcomes == {"ok", "fail", "partial"}

\* What running osascript on the script can do.  The script prints its result
\* and exits 0 once it ran to its end: "success" after close access, "no_image"
\* from its on error handler, reached from the coercion and from open for
\* access (no file yet) or from write and close access (file created).  The
\* process can also fail to launch, or end with a non-zero status and nothing
\* on stdout, before or after the destination file was created.
OsascriptOutcomes ==
    { [launched |-> FALSE, exit0 |-> FALSE, stdout |-> "", created |-> FALSE],
      [launched |-> TRUE, exit0 |-> FALSE, stdout |-> "", created |-> FALSE],
      [launched |-> TRUE, exit0 |-> FALSE, stdout |-> "", created |-> TRUE],
      [launched |-> TRUE, exit0 |-> TRUE, stdout |-> "no_image\n", created |-> FALSE],
      [launched |-> TRUE, exit0 |-> TRUE, stdout |-> "no_image\n", created |-> TRUE],
      [launched |-> TRUE, exit0 |-> TRUE, stdout |-> "success\n", created |-> TRUE] }

\* The comparison without trim(): the newline osascript prints stays on.
ReportsSuccessUntrimmed(stdout) == stdout = "success"

\* stdout.trim() === "success"
ReportsSuccess(stdout) == Trim(stdout) = "success"

\* promisify(execFile): rejects when the process could not be launched or
\* ended with a non-zero status, resolves with its stdout otherwise.
ExecFileRejects(out) == ~out.launched \/ ~out.exit0

\* Lines 54-55 and 58-59 (161-162, 165-166): await cleanupTempFile(scriptPath),
\* then return the value.
ThenReturn(c, value) == [threw |-> c.threw, value |-> value, fs |-> c.fs]

\* Lines 51-59 (156-166): the body of the inner try, on the filesystem the
\* interpreter left.
ScriptBody(v, ran, tempPath, scriptPath, osa, perm1) ==
    IF ExecFileRejects(osa)
    THEN [threw |-> TRUE, value |-> Null, fs |-> ran]
    ELSE ThenReturn(CleanupTempFile(v, ran, scriptPath, perm1),
                    IF ReportsSuccess(osa.stdout) THEN tempPath ELSE Null)

\* Lines 60-67 (167-174): finally { try { await cleanupTempFile(scriptPath) }
\* catch {} }, after which the body's return or throw goes on.
Finally(v, body, scriptPath, perm2) ==
    [threw |-> body.threw,
     value |-> IF body.threw THEN Null ELSE body.value,
     fs |-> CleanupTempFile(v, body.fs, scriptPath, perm2).fs]

\* Lines 50-67 (155-174): the inner try with its finally.
RunScript(v, files, tempPath, scriptPath, osa, perm1, perm2) ==
    Finally(v,
            ScriptBody(v, IF osa.created THEN files \cup {tempPath} ELSE files,
                       tempPath, scriptPath, osa, perm1),
            scriptPath, perm2)

\* Lines 48-67 (153-174): writeFile, then the inner try.
WriteAndRun(v, files, tempPath, scriptPath, write, osa, perm1, perm2) ==
    IF write # "ok"
    THEN [threw |-> TRUE, value |-> Null,
          fs |-> IF write = "partial" THEN files \cup {scriptPath} ELSE files]
    ELSE RunScript(v, files \cup {scriptPath}, tempPath, scriptPath, osa, perm1, perm2)

\* The outer try without its catch: what the body throws goes on to the caller.
OuterCatchRethrows(body, tempPath, scriptPath) ==
    [threw |-> body.threw,
     value |-> IF body.threw THEN Null ELSE body.value,
     fs |-> body.fs, export |-> TRUE, tempPath |-> tempPath,
     scriptPath |-> scriptPath]

\* Lines 68-71 (175-178): catch { return null }.
OuterCatch(body, tempPath, scriptPath) ==
    [threw |-> FALSE,
     value |-> IF body.threw THEN Null ELSE body.value,
     fs |-> body.fs, export |-> TRUE, tempPath |-> tempPath,
     scriptPath |-> scriptPath]

\* Lines 32-71 (136-178): the outer try with its catch.
ExportWith(v, files, tempPath, scriptPath, write, osa, perm1, perm2) ==
    OuterCatch(WriteAndRun(v, files, tempPath, scriptPath, write, osa, perm1, perm2),
               tempPath, scriptPath)

ExportClipboardImage(v, files, n, write, osa, perm1, perm2) ==
    ExportWith(v, files, TempPaths[n + 1], ScriptPaths[n + 2], write, osa, perm1, perm2)

\* Lines 14-72 (118-179): the whole function.
GetClipboardImagePath(v, files, n, clip, write, osa, perm1, perm2) ==
    IF ~clip.ok
    THEN \* await Clipboard.read() stands outside the try
         [threw |-> TRUE, value |-> Null, fs |-> files, export |-> FALSE,
          tempPath |-> "", scriptPath |-> ""]
    ELSE IF clip.file # "" /\ IsImage(clip.file)
    THEN [threw |-> FALSE, value |-> clip.file, fs |-> files, export |-> FALSE,
          tempPath |-> "", scriptPath |-> ""]
    ELSE ExportClipboardImage(v, files, n, write, osa, perm1, perm2)

(***************************************************************************)
(* takeScreenshot (the two versions are the same text).                    *)
(***************************************************************************)
\* What running screencapture -i can do: fail to launch; write the file and
\* exit 0 (selection completed); write nothing and exit 0 or non-zero
\* (selection cancelled, or the capture failed).
ScreencaptureOutcomes ==
    { [launched |-> FALSE, exit0 |-> FALSE, stdout |-> "", created |-> FALSE],
      [launched |-> TRUE, exit0 |-> TRUE, stdout |-> "", created |-> TRUE],
      [launched |-> TRUE, exit0 |-> TRUE, stdout |-> "", created |-> FALSE],
      [launched |-> TRUE, exit0 |-> FALSE, stdout |-> "", created |-> FALSE] }

\* takeScreenshot with the rejection of execFileAsync caught: the path is
\* returned whatever the utility did.
CaptureToSwallowing(files, tempPath, out) ==
    [threw |-> FALSE, value |-> tempPath,
     fs |-> IF out.created THEN files \cup {tempPath} ELSE files,
     tempPath |-> tempPath]

\* Lines 82-84 (189-191): await execFileAsync(...); return tempPath.
CaptureTo(files, tempPath, out) ==
    IF ExecFileRejects(out)
    THEN [threw |-> TRUE, value |-> Null, fs |-> files, tempPath |-> tempPath]
    ELSE [threw |-> FALSE, value |-> tempPath,
          fs |-> IF out.created THEN files \cup {tempPath} ELSE files,
          tempPath |-> tempPath]

\* Lines 78-85 (185-192).
TakeScreenshot(files, n, out) == CaptureTo(files, ScreenshotPaths[n + 1], out)

(***************************************************************************)
(* The state machine: the extension's commands call the three functions in *)
(* any order.  `images` holds the temp image paths the functions returned, *)
(* `originals` the clipboard files returned as they are, and `last`        *)
(* describes the latest call: what it was given, what the processes it ran *)
(* did, and what it returned.                                              *)
(***************************************************************************)
NoCall ==
    [op |-> "none", arg |-> "", clipOk |-> FALSE, threw |-> FALSE, value |-> Null,
     export |-> FALSE, tempPath |-> "", scriptPath |-> "", scriptWritten |-> FALSE,
     launched |-> FALSE, exit0 |-> FALSE, stdout |-> "",
     attempted |-> FALSE, failed |-> FALSE, denied |-> FALSE,
     existed |-> FALSE, isLink |-> FALSE,
     real |-> "", removed |-> {}]

Init ==
    /\ variant \in {1, 2}
    /\ fs = EnvFiles \cup Links
    /\ uuids = 0
    /\ images = {}
    /\ originals = {}
    /\ last = NoCall

\* The byte-export branch is reached: the read resolved, and the descriptor
\* has no file or one that is no image.
TakesExport(clip) == clip.ok /\ ~(clip.file # "" /\ IsImage(clip.file))

\* The outcome of a process that was never started.
NotRun == [launched |-> FALSE, exit0 |-> FALSE, stdout |-> "", created |-> FALSE]

\* The state after a getClipboardImagePath call that did r.
AfterGetClipboardImagePath(r, clip, ranScript, osa) ==
    /\ r.export => uuids + 2 <= MaxUuids
    /\ fs' = r.fs
    /\ uuids' = IF r.export THEN uuids + 2 ELSE uuids
    /\ images' = IF r.export /\ r.value # Null THEN images \cup {r.value} ELSE images
    /\ originals' = IF ~r.export /\ ~r.threw
                    THEN originals \cup {r.value} ELSE originals
    /\ last' = [NoCall EXCEPT
                  !.op = "getClipboardImagePath",
                  !.arg = clip.file,
                  !.clipOk = clip.ok,
                  !.threw = r.threw,
                  !.value = r.value,
                  !.export = r.export,
                  !.tempPath = r.tempPath,
                  !.scriptPath = r.scriptPath,
                  !.scriptWritten = ranScript,
                  !.launched = ranScript /\ osa.launched,
                  !.exit0 = ranScript /\ osa.exit0,
                  !.stdout = IF ranScript THEN osa.stdout ELSE "",
                  !.removed = fs \ r.fs]
    /\ UNCHANGED variant

\* A call of getClipboardImagePath.  The outcome of a step is drawn only when
\* the call reaches the step.
GetClipboardImagePathCall ==
    \E clip \in ClipboardReads :
    \E write \in IF TakesExport(clip) THEN WriteOutcomes ELSE {"ok"} :
    \E osa \in IF TakesExport(clip) /\ write = "ok" THEN OsascriptOutcomes ELSE {NotRun} :
    \E perm1 \in IF TakesExport(clip) /\ write = "ok" /\ ~ExecFileRejects(osa)
                 THEN BOOLEAN ELSE {TRUE} :
    \E perm2 \in IF TakesExport(clip) /\ write = "ok" THEN BOOLEAN ELSE {TRUE} :
        /\ clip.file = "" \/ clip.file \in fs
        /\ AfterGetClipboardImagePath(
               GetClipboardImagePath(variant, fs, uuids, clip, write, osa, perm1, perm2),
               clip, TakesExport(clip) /\ write = "ok", osa)

\* The state after a takeScreenshot call that did r.
AfterTakeScreenshot(r, out) ==
    /\ fs' = r.fs
    /\ uuids' = uuids + 1
    /\ images' = IF r.threw THEN images ELSE images \cup {r.value}
    /\ last' = [NoCall EXCEPT
                  !.op = "takeScreenshot",
                  !.threw = r.threw,
                  !.value = r.value,
                  !.tempPath = r.tempPath,
                  !.launched = out.launched,
                  !.exit0 = out.exit0,
                  !.removed = fs \ r.fs]
    /\ UNCHANGED <<variant, originals>>

TakeScreenshotCall ==
    \E out \in ScreencaptureOutcomes :
        /\ uuids + 1 <= MaxUuids
        /\ AfterTakeScreenshot(TakeScreenshot(fs, uuids, out), out)

\* The state after a cleanupTempFile(filePath) call that did r; e is the entry
\* the path named when the call was made.
AfterCleanupTempFile(r, filePath, e, permitted) ==
    /\ fs' = r.fs
    /\ last' = [NoCall EXCEPT
                  !.op = "cleanupTempFile",
                  !.arg = filePath,
                  !.threw = r.threw,
                  !.attempted = r.attempted,
                  !.failed = r.failed,
                  !.denied = r.attempted /\ e \in fs /\ ~permitted,
                  !.existed = e \in fs,
                  !.isLink = e \in fs /\ e \in Links,
                  !.real = Followed(fs, e),
                  !.removed = fs \ r.fs]
    /\ UNCHANGED <<variant, uuids, images, originals>>

\* A call of cleanupTempFile, with a path a function returned or with another.
CleanupTempFileCall ==
    \E filePath \in images \cup originals \cup ProbePaths, permitted \in BOOLEAN :
        AfterCleanupTempFile(CleanupTempFile(variant, fs, filePath, permitted),
                             filePath, KernelEntry(fs, filePath), permitted)

Next ==
    \/ GetClipboardImagePathCall
    \/ TakeScreenshotCall
    \/ CleanupTempFileCall

Spec == Init /\ [][Next]_vars

(***************************************************************************)
(* What the latest call was.                                               *)
(***************************************************************************)
IsGetClipboardImagePath == last.op = "getClipboardImagePath"

IsTakeScreenshot == last.op = "takeScreenshot"

IsCleanupTempFile == last.op = "cleanupTempFile"

\* /tmp/raycast-ocr-<uuid>.png
IsTempImagePath(p) ==
    \E n \in UuidRange : p = "/tmp/raycast-ocr-" \o UuidOf(n) \o ".png"

\* /tmp/raycast-ocr-screenshot-<uuid>.png
IsScreenshotPath(p) ==
    \E n \in UuidRange : p = "/tmp/raycast-ocr-screenshot-" \o UuidOf(n) \o ".png"

\* The path has a ".." segment.
HasTraversalSegment(p) == \E i \in 1..Len(Segments(p)) : Segments(p)[i] = ".."

(***************************************************************************)
(* C1.  Whenever a call of getClipboardImagePath took the byte-export      *)
(* branch, wrote its script file and returned, the script file no longer   *)
(* exists, in either version.                                              *)
(***************************************************************************)
C1_ScriptFileRemoved ==
    (IsGetClipboardImagePath /\ last.export /\ last.scriptWritten)
        => last.scriptPath \notin fs

(***************************************************************************)
(* C2.  cleanupTempFile with a path that does not start with               *)
(* /tmp/raycast-ocr attempts no unlink and removes nothing.                *)
(***************************************************************************)
C2_UnprefixedCleanupIsNoOp ==
    (IsCleanupTempFile /\ ~StartsWith(last.arg, TempPrefix))
        => (~last.attempted /\ last.removed = {})

(***************************************************************************)
(* C3.  cleanupTempFile with a path that has a ".." segment attempts no    *)
(* unlink and removes nothing, in either version.                          *)
(***************************************************************************)
C3_TraversalCleanupIsNoOp ==
    (IsCleanupTempFile /\ HasTraversalSegment(last.arg))
        => (~last.attempted /\ last.removed = {})

(***************************************************************************)
(* C4.  cleanupTempFile with the path of a symbolic link under the temp    *)
(* prefix whose target lies outside /tmp attempts no unlink and removes    *)
(* neither the link nor its target.                                        *)
(***************************************************************************)
C4_EscapingLinkCleanupIsNoOp ==
    (IsCleanupTempFile /\ last.isLink /\ StartsWith(last.arg, TempPrefix)
        /\ ~StartsWith(last.real, "/tmp/"))
        => (~last.attempted /\ last.removed = {})

(***************************************************************************)
(* C5, as claimed.  getClipboardImagePath never raises to its caller,      *)
(* whatever the clipboard read and the later steps do.                     *)
(***************************************************************************)
C5_NeverRaises == IsGetClipboardImagePath => ~last.threw

(***************************************************************************)
(* C5, amended.  getClipboardImagePath raises exactly when the host        *)
(* clipboard read fails; whatever writing the script, running osascript    *)
(* and deleting the script do, it returns the clipboard's file, the        *)
(* generated destination path or null.                                     *)
(***************************************************************************)
C5_RaisesOnlyOnReadFailure ==
    IsGetClipboardImagePath =>
        /\ last.threw <=> ~last.clipOk
        /\ ~last.threw =>
              \/ last.value = Null
              \/ last.arg # "" /\ last.value = last.arg
              \/ last.export /\ last.value = last.tempPath

\* A call whose script was written but whose interpreter could not be
\* launched, and which returned null.
C5_Witness ==
    /\ IsGetClipboardImagePath
    /\ last.scriptWritten /\ ~last.launched
    /\ ~last.threw /\ last.value = Null

(***************************************************************************)
(* C6.  When the clipboard read resolves, the result is the descriptor's   *)
(* file if its lower-cased form ends with an allow-listed extension;       *)
(* otherwise the byte-export attempt runs with a destination               *)
(* /tmp/raycast-ocr-<uuid>.png, and the result is that destination exactly *)
(* when the interpreter's trimmed output is "success", and null otherwise. *)
(***************************************************************************)
AllowListed(file) ==
    file # "" /\ \E ext \in ImageExtensions : EndsWith(ToLowerCase(file), ext)

C6_ResultMatchesReference ==
    (IsGetClipboardImagePath /\ last.clipOk) =>
        IF AllowListed(last.arg)
        THEN ~last.export /\ last.value = last.arg
        ELSE /\ last.export
             /\ IsTempImagePath(last.tempPath)
             /\ last.value = IF Trim(last.stdout) = "success"
                             THEN last.tempPath ELSE Null

\* A file that is no image was on the clipboard, the export ran and
\* succeeded, and the destination was returned.
C6_Witness ==
    /\ IsGetClipboardImagePath
    /\ last.arg = "/Users/me/notes.txt"
    /\ last.export /\ Trim(last.stdout) = "success"
    /\ last.value = last.tempPath

(***************************************************************************)
(* C7, as claimed.  Whenever screencapture was launched, takeScreenshot    *)
(* returns a path /tmp/raycast-ocr-screenshot-<uuid>.png, whatever exit    *)
(* status the utility reports.                                             *)
(***************************************************************************)
C7_ReturnsWheneverLaunched ==
    (IsTakeScreenshot /\ last.launched)
        => (~last.threw /\ IsScreenshotPath(last.value))

(***************************************************************************)
(* C7, amended.  takeScreenshot returns a path                             *)
(* /tmp/raycast-ocr-screenshot-<uuid>.png exactly when screencapture was   *)
(* launched and exited with status 0, whether or not it wrote the file; a  *)
(* failure to launch and a non-zero exit status both raise to the caller.  *)
(***************************************************************************)
C7_ReturnsIffExitZero ==
    IsTakeScreenshot =>
        /\ last.threw <=> ~(last.launched /\ last.exit0)
        /\ ~last.threw => IsScreenshotPath(last.value)

\* The selection was cancelled with exit status 0: a path is returned and no
\* file is there.
C7_Witness ==
    /\ IsTakeScreenshot
    /\ last.launched /\ last.exit0 /\ ~last.threw
    /\ last.value \notin fs

(***************************************************************************)
(* C8.  cleanupTempFile with a temp image path that getClipboardImagePath  *)
(* or takeScreenshot returned passes the checks of its version and         *)
(* attempts the unlink; it never raises; the unlink fails exactly when the *)
(* file is not there (never created, or cleaned up before) or the process  *)
(* may not delete it; and when it does not fail the file is the one thing  *)
(* removed and no longer exists.                                           *)
(***************************************************************************)
C8_GeneratedImageIsCleaned ==
    (IsCleanupTempFile /\ last.arg \in images) =>
        /\ last.attempted
        /\ ~last.threw
        /\ last.failed <=> (~last.existed \/ last.denied)
        /\ ~last.failed => (last.removed = {last.arg} /\ last.arg \notin fs)
        /\ last.failed => last.removed = {}

\* A returned temp image that existed was cleaned up and is gone.
C8_Witness ==
    /\ IsCleanupTempFile
    /\ last.arg \in images
    /\ last.existed /\ ~last.failed
    /\ last.arg \notin fs

(***************************************************************************)
(* C9.  cleanupTempFile called with a path that getClipboardImagePath or   *)
(* takeScreenshot returned never removes a file that the clipboard         *)
(* descriptor named and that was returned as it is.                        *)
(***************************************************************************)
C9_CleanupSparesOriginals ==
    (IsCleanupTempFile /\ last.arg \in images \cup originals)
        => last.removed \cap originals = {}

(***************************************************************************)
(* C10.  Whenever getClipboardImagePath returns null after a byte-export   *)
(* attempt, the destination file of that attempt does not exist.           *)
(***************************************************************************)
C10_AbsentLeavesNoImage ==
    (IsGetClipboardImagePath /\ last.export /\ ~last.threw /\ last.value = Null)
        => last.tempPath \notin fs

====
